---- MODULE Spec2Model ----
(***************************************************************************)
(* Model of app.py: the PTD vs SDS comparison tool.                        *)
(*                                                                         *)
(* A scalar cell value is a record [kind, chars, n]:                       *)
(*   kind = "nan"  : float NaN (an empty cell),                            *)
(*   kind = "none" : Python None,                                          *)
(*   kind = "str"  : a string, chars is its sequence of characters,        *)
(*   kind = "int"  : an integer n.                                         *)
(* A DataFrame is a record [columns, rows]: columns is the ordered list of *)
(* column names, rows the ordered list of rows, each row a function from   *)
(* the column names to cell values.                                        *)
(***************************************************************************)
EXTENDS Integers, Sequences, FiniteSets, TLC

VARIABLES pc, val1, val2, cmp, cmp_swapped,
          source_df, target_df, source_name, target_name,
          item_name, source_row, target_row, match_type,
          selected_items, all_comparisons, summary_df, issues_df,
          pct_df, pct_out,
          raw_df, ptd_out,
          session_state, widgets, output, history

cmp_vars == <<val1, val2, cmp, cmp_swapped>>
input_vars == <<source_df, target_df, source_name, target_name>>
match_vars == <<item_name, source_row, target_row, match_type>>
run_vars == <<selected_items, all_comparisons, summary_df>>
core_vars == <<input_vars, match_vars, run_vars, issues_df>>
pct_vars == <<pct_df, pct_out>>
ptd_vars == <<raw_df, ptd_out>>
session_vars == <<session_state, widgets, output, history>>
vars == <<pc, cmp_vars, core_vars, pct_vars, ptd_vars, session_vars>>

(* ---------------------------- bounds ----------------------------------- *)
MaxLen == 2
MaxRows == 2
MaxSelected == 2
MaxColumns == 3
MaxPtdRows == 4

(* ---------------------------- cell values ------------------------------ *)
NaN == [kind |-> "nan", chars |-> <<>>, n |-> 0]
None == [kind |-> "none", chars |-> <<>>, n |-> 0]
StrV(s) == [kind |-> "str", chars |-> s, n |-> 0]
IntV(i) == [kind |-> "int", chars |-> <<>>, n |-> i]

Whitespace == {" ", "\t"}
Chars == {"k", "K", "5"} \cup Whitespace
Strings == UNION {[1..m -> Chars] : m \in 0..MaxLen}
Ints == {5, 12}
Values ==
    {NaN, None}
    \cup {StrV(s) : s \in Strings}
    \cup {StrV(<<"k", "g">>), StrV(<<"K", "G", " ">>)}
    \cup {IntV(i) : i \in Ints}

(* pd.isna on a scalar *)
isna(v) == v.kind \in {"nan", "none"}

Digit(d) == CASE d = 0 -> "0" [] d = 1 -> "1" [] d = 2 -> "2" [] d = 3 -> "3"
              [] d = 4 -> "4" [] d = 5 -> "5" [] d = 6 -> "6" [] d = 7 -> "7"
              [] d = 8 -> "8" [] d = 9 -> "9"

RECURSIVE Digits(_)
Digits(i) == IF i < 10 THEN <<Digit(i)>> ELSE Digits(i \div 10) \o <<Digit(i % 10)>>

(* str(v) *)
str(v) ==
    CASE v.kind = "str" -> v.chars
      [] v.kind = "int" -> Digits(v.n)
      [] v.kind = "nan" -> <<"n", "a", "n">>
      [] v.kind = "none" -> <<"N", "o", "n", "e">>

RECURSIVE lstrip(_)
lstrip(s) == IF s # <<>> /\ Head(s) \in Whitespace THEN lstrip(Tail(s)) ELSE s

RECURSIVE rstrip(_)
rstrip(s) ==
    IF s # <<>> /\ s[Len(s)] \in Whitespace THEN rstrip(SubSeq(s, 1, Len(s) - 1)) ELSE s

(* s.strip() *)
strip(s) == rstrip(lstrip(s))

(* ---------------------------- Value Comparator ------------------------- *)
Statuses == {"match", "mismatch", "missing_source", "missing_target"}

compare_no_strip(a, b) ==
    IF isna(a) /\ isna(b) THEN [status |-> "match", symbol |-> "ok", note |-> <<>>]
    ELSE IF isna(a) /\ ~isna(b)
        THEN [status |-> "missing_source", symbol |-> "warn", note |-> <<"Missing in ", "Source">>]
    ELSE IF ~isna(a) /\ isna(b)
        THEN [status |-> "missing_target", symbol |-> "warn", note |-> <<"Missing in ", "Target">>]
    ELSE IF str(a) = str(b)
        THEN [status |-> "match", symbol |-> "ok", note |-> <<>>]
    ELSE [status |-> "mismatch", symbol |-> "bad", note |-> <<"Values differ">>]

compare_strip_first_only(a, b) ==
    IF isna(a) /\ isna(b) THEN [status |-> "match", symbol |-> "ok", note |-> <<>>]
    ELSE IF isna(a) /\ ~isna(b)
        THEN [status |-> "missing_source", symbol |-> "warn", note |-> <<"Missing in ", "Source">>]
    ELSE IF ~isna(a) /\ isna(b)
        THEN [status |-> "missing_target", symbol |-> "warn", note |-> <<"Missing in ", "Target">>]
    ELSE IF strip(str(a)) = str(b)
        THEN [status |-> "match", symbol |-> "ok", note |-> <<>>]
    ELSE [status |-> "mismatch", symbol |-> "bad", note |-> <<"Values differ">>]

compare_values_vectorized(a, b) ==
    IF isna(a) /\ isna(b) THEN [status |-> "match", symbol |-> "ok", note |-> <<>>]
    ELSE IF isna(a) /\ ~isna(b)
        THEN [status |-> "missing_source", symbol |-> "warn", note |-> <<"Missing in ", "Source">>]
    ELSE IF ~isna(a) /\ isna(b)
        THEN [status |-> "missing_target", symbol |-> "warn", note |-> <<"Missing in ", "Target">>]
    ELSE IF strip(str(a)) = strip(str(b))
        THEN [status |-> "match", symbol |-> "ok", note |-> <<>>]
    ELSE [status |-> "mismatch", symbol |-> "bad", note |-> <<"Values differ">>]


(* ---------------------------- DataFrames ------------------------------- *)
EmptyDf == [columns |-> <<>>, rows |-> <<>>]

(* DataFrame.empty *)
empty(df) == Len(df.rows) = 0 \/ Len(df.columns) = 0

Range(s) == {s[i] : i \in 1..Len(s)}

(* element-wise ==, as pandas evaluates  df[col] == key  on one cell *)
cell_eq(v, key) == ~isna(v) /\ ~isna(key) /\ v.kind = key.kind /\ v = key

(* df[df[col] == key] *)
filter_rows(df, col, key) ==
    [columns |-> df.columns,
     rows |-> SelectSeq(df.rows, LAMBDA r : cell_eq(r[col], key))]

(* ---------------------------- Row Matcher ------------------------------ *)
MatchResult(s, t, by) == [source_row |-> s, target_row |-> t, match_type |-> by]

(* lines 99-112: the Form Label fallback and the final return *)
form_label_fallback(source_df_, target_df_, s, t) ==
    LET t1 == IF ~empty(s)
                 THEN filter_rows(target_df_, "Form Label", s.rows[1]["Form Label"])
                 ELSE t
    IN  IF ~empty(s) /\ ~empty(t1) THEN MatchResult(s, t1, "Form Label")
        ELSE LET s1 == IF ~empty(t1)
                          THEN filter_rows(source_df_, "Form Label", t1.rows[1]["Form Label"])
                          ELSE s
             IN  IF ~empty(t1) /\ ~empty(s1) THEN MatchResult(s1, t1, "Form Label")
                 ELSE MatchResult(s1, t1, "None")

(* lines 86-97: the Item Group Label fallback *)
group_label_fallback(source_df_, target_df_, s, t) ==
    LET t1 == IF ~empty(s)
                 THEN filter_rows(target_df_, "Item Group Label", s.rows[1]["Item Group Label"])
                 ELSE t
    IN  IF ~empty(s) /\ ~empty(t1) THEN MatchResult(s, t1, "Item Group Label")
        ELSE LET s1 == IF ~empty(t1)
                          THEN filter_rows(source_df_, "Item Group Label",
                                           t1.rows[1]["Item Group Label"])
                          ELSE s
             IN  IF ~empty(t1) /\ ~empty(s1) THEN MatchResult(s1, t1, "Item Group Label")
                 ELSE form_label_fallback(source_df_, target_df_, s1, t1)

find_matching_rows_both_required(source_df_, target_df_, key) ==
    LET s == filter_rows(source_df_, "Item Name", key)
        t == filter_rows(target_df_, "Item Name", key)
    IN  IF ~empty(s) /\ ~empty(t) THEN MatchResult(s, t, "Item Name")
        ELSE group_label_fallback(source_df_, target_df_, s, t)

find_matching_rows_group_first(source_df_, target_df_, key) ==
    LET s == filter_rows(source_df_, "Item Name", key)
        t == filter_rows(target_df_, "Item Name", key)
        g == group_label_fallback(source_df_, target_df_, s, EmptyDf)
    IN  IF g.match_type = "Item Group Label" THEN g
        ELSE IF ~empty(s) \/ ~empty(t) THEN MatchResult(s, t, "Item Name")
        ELSE g

find_matching_rows(source_df_, target_df_, key) ==
    LET s == filter_rows(source_df_, "Item Name", key)
        t == filter_rows(target_df_, "Item Name", key)
    IN  IF ~empty(s) \/ ~empty(t) THEN MatchResult(s, t, "Item Name")
        ELSE group_label_fallback(source_df_, target_df_, s, t)

(* ---------------------------- Comparison Builder ----------------------- *)
IGNORE_COLUMNS == {"Definition Last Modified", "Relationship Last Modified"}

(* note.replace(old, new) on a note held as a sequence of fragments *)
replace(note, old, new) == [i \in 1..Len(note) |-> IF note[i] = old THEN new ELSE note[i]]

(* Series.get(col): the cell, or None when the label is not in the index *)
series_get(series, col) == IF col \in DOMAIN series THEN series[col] ELSE None

ColumnNotIn(name) == StrV(<<"Column not in ", name>>)

comparison_record_generic_note(col, source_values, target_values, source_name_, target_name_) ==
    LET source_value == series_get(source_values, col)
        target_value == IF col \in DOMAIN target_values
                           THEN series_get(target_values, col)
                           ELSE None
        c == compare_values_vectorized(source_value, target_value)
    IN  [column_name |-> col,
         source_value |-> IF ~isna(source_value) THEN source_value ELSE StrV(<<>>),
         target_value |-> IF ~isna(target_value) THEN target_value
                                                 ELSE ColumnNotIn(target_name_),
         status |-> c.symbol,
         match |-> c.status,
         note |-> c.note]

comparison_record(col, source_values, target_values, source_name_, target_name_) ==
    LET source_value == series_get(source_values, col)
        target_value == IF col \in DOMAIN target_values
                           THEN series_get(target_values, col)
                           ELSE None
        c == compare_values_vectorized(source_value, target_value)
        note == replace(replace(c.note, "Source", source_name_), "Target", target_name_)
    IN  [column_name |-> col,
         source_value |-> IF ~isna(source_value) THEN source_value ELSE StrV(<<>>),
         target_value |-> IF ~isna(target_value) THEN target_value
                                                 ELSE ColumnNotIn(target_name_),
         status |-> c.symbol,
         match |-> c.status,
         note |-> note]

create_comparison_dataframe_last_row(source_row_, target_row_, source_df_, source_name_, target_name_) ==
    LET source_columns == SelectSeq(source_df_.columns, LAMBDA c : c \notin IGNORE_COLUMNS)
        nones == [c \in Range(source_columns) |-> None]
        source_values == IF ~empty(source_row_) THEN source_row_.rows[Len(source_row_.rows)]
                                                ELSE nones
        target_values == IF ~empty(target_row_) /\ Len(target_row_.rows) > 0
                            THEN target_row_.rows[Len(target_row_.rows)] ELSE nones
    IN  [i \in 1..Len(source_columns) |->
            comparison_record(source_columns[i], source_values, target_values,
                              source_name_, target_name_)]

create_comparison_dataframe_blank_fill(source_row_, target_row_, source_df_, source_name_, target_name_) ==
    LET source_columns == SelectSeq(source_df_.columns, LAMBDA c : c \notin IGNORE_COLUMNS)
        blanks == [c \in Range(source_columns) |-> StrV(<<>>)]
        source_values == IF ~empty(source_row_) THEN source_row_.rows[1] ELSE blanks
        target_values == IF ~empty(target_row_) /\ Len(target_row_.rows) > 0
                            THEN target_row_.rows[1] ELSE blanks
    IN  [i \in 1..Len(source_columns) |->
            comparison_record(source_columns[i], source_values, target_values,
                              source_name_, target_name_)]

create_comparison_dataframe_all_columns(source_row_, target_row_, source_df_, source_name_, target_name_) ==
    LET source_columns == source_df_.columns
        nones == [c \in Range(source_columns) |-> None]
        source_values == IF ~empty(source_row_) THEN source_row_.rows[1] ELSE nones
        target_values == IF ~empty(target_row_) /\ Len(target_row_.rows) > 0
                            THEN target_row_.rows[1] ELSE nones
    IN  [i \in 1..Len(source_columns) |->
            comparison_record(source_columns[i], source_values, target_values,
                              source_name_, target_name_)]

create_comparison_dataframe(source_row_, target_row_, source_df_, source_name_, target_name_) ==
    LET source_columns == SelectSeq(source_df_.columns, LAMBDA c : c \notin IGNORE_COLUMNS)
        nones == [c \in Range(source_columns) |-> None]
        source_values == IF ~empty(source_row_) THEN source_row_.rows[1] ELSE nones
        target_values == IF ~empty(target_row_) /\ Len(target_row_.rows) > 0
                            THEN target_row_.rows[1] ELSE nones
    IN  [i \in 1..Len(source_columns) |->
            comparison_record(source_columns[i], source_values, target_values,
                              source_name_, target_name_)]

(* ---------------------------- comparison run --------------------------- *)
compare_item_no_skip(comparisons, source_df_, target_df_, key, source_name_, target_name_) ==
    LET m == find_matching_rows(source_df_, target_df_, key)
    IN  Append(comparisons,
               [item_name |-> key,
                comparison_df |-> create_comparison_dataframe(
                    m.source_row, m.target_row, source_df_, source_name_, target_name_),
                match_type |-> m.match_type,
                source_exists |-> ~empty(m.source_row),
                target_exists |-> ~empty(m.target_row)])

(* lines 696-708: one iteration of the loop over the selected items *)
compare_item(comparisons, source_df_, target_df_, key, source_name_, target_name_) ==
    LET m == find_matching_rows(source_df_, target_df_, key)
    IN  IF empty(m.source_row) /\ empty(m.target_row) THEN comparisons
        ELSE LET entry == [item_name |-> key,
                           comparison_df |-> create_comparison_dataframe(
                               m.source_row, m.target_row, source_df_,
                               source_name_, target_name_),
                           match_type |-> m.match_type,
                           source_exists |-> ~empty(m.source_row),
                           target_exists |-> ~empty(m.target_row)]
             IN  IF \E i \in 1..Len(comparisons) : comparisons[i].item_name = key
                    THEN [i \in 1..Len(comparisons) |->
                             IF comparisons[i].item_name = key THEN entry ELSE comparisons[i]]
                    ELSE Append(comparisons, entry)

(* lines 680-708: all_comparisons = {} followed by the loop *)
RECURSIVE compare_items(_, _, _, _, _, _)
compare_items(comparisons, source_df_, target_df_, items, source_name_, target_name_) ==
    IF items = <<>> THEN comparisons
    ELSE compare_items(
             compare_item(comparisons, source_df_, target_df_, Head(items),
                          source_name_, target_name_),
             source_df_, target_df_, Tail(items), source_name_, target_name_)

(* ---------------------------- report summary --------------------------- *)
count(comp_df, status_) == Cardinality({i \in 1..Len(comp_df) : comp_df[i].match = status_})

(* f"{x:.1f}" of x = matches / total * 100, in tenths of a percent,       *)
(* rounded half to even                                                    *)
format_1f(matches, total) ==
    LET q == (matches * 1000) \div total
        r == (matches * 1000) % total
    IN  IF 2 * r > total \/ (2 * r = total /\ q % 2 = 1) THEN q + 1 ELSE q

summary_row_copied_mask(data) ==
    LET comp_df == data.comparison_df
        total_cols == Len(comp_df)
        matches == count(comp_df, "match")
    IN  [item_name |-> data.item_name,
         match_type |-> data.match_type,
         in_source |-> IF data.source_exists THEN "ok" ELSE "bad",
         in_target |-> IF data.target_exists THEN "ok" ELSE "bad",
         total_columns |-> total_cols,
         matches |-> matches,
         mismatches |-> count(comp_df, "mismatch"),
         missing_in_target |-> count(comp_df, "missing_target"),
         missing_in_source |-> count(comp_df, "missing_target"),
         match_pct |-> IF total_cols > 0 THEN format_1f(matches, total_cols) ELSE 0]

summary_row_mismatch_share(data) ==
    LET comp_df == data.comparison_df
        total_cols == Len(comp_df)
        mismatches == count(comp_df, "mismatch")
    IN  [item_name |-> data.item_name,
         match_type |-> data.match_type,
         in_source |-> IF data.source_exists THEN "ok" ELSE "bad",
         in_target |-> IF data.target_exists THEN "ok" ELSE "bad",
         total_columns |-> total_cols,
         matches |-> count(comp_df, "match"),
         mismatches |-> mismatches,
         missing_in_target |-> count(comp_df, "missing_target"),
         missing_in_source |-> count(comp_df, "missing_source"),
         match_pct |-> IF total_cols > 0 THEN format_1f(mismatches, total_cols) ELSE 0]

(* lines 205-231: one row of the Comparison Summary sheet *)
summary_row(data) ==
    LET comp_df == data.comparison_df
        total_cols == Len(comp_df)
        matches == count(comp_df, "match")
    IN  [item_name |-> data.item_name,
         match_type |-> data.match_type,
         in_source |-> IF data.source_exists THEN "ok" ELSE "bad",
         in_target |-> IF data.target_exists THEN "ok" ELSE "bad",
         total_columns |-> total_cols,
         matches |-> matches,
         mismatches |-> count(comp_df, "mismatch"),
         missing_in_target |-> count(comp_df, "missing_target"),
         missing_in_source |-> count(comp_df, "missing_source"),
         match_pct |-> IF total_cols > 0 THEN format_1f(matches, total_cols) ELSE 0]

summary_data(comparisons) == [i \in 1..Len(comparisons) |-> summary_row(comparisons[i])]

(* ---------------------------- match percentage ------------------------- *)
(* The value of  matches / total * 100  is kept exact, as the fraction     *)
(* num / den; error names the exception the expression ends in, if any.    *)
Rate(num_, den_) == [error |-> "none", num |-> num_, den |-> den_]
Raised(exception) == [error |-> exception, num |-> 0, den |-> 1]

(* comp_df is pd.DataFrame(comparison_data): built from an empty list it   *)
(* has no columns at all, so comp_df['Match'] is a KeyError                *)
has_match_column(comp_df) == Len(comp_df) > 0

(* lines 208-218: match_percentage of the report's summary sheet *)
summary_match_percentage(comp_df) ==
    IF ~has_match_column(comp_df) THEN Raised("KeyError")
    ELSE IF Len(comp_df) > 0 THEN Rate(count(comp_df, "match") * 100, Len(comp_df))
    ELSE Rate(0, 1)

(* lines 732-738: match_percentage of the on-screen summary *)
screen_match_percentage(comp_df) ==
    IF ~has_match_column(comp_df) THEN Raised("KeyError")
    ELSE IF Len(comp_df) > 0 THEN Rate(count(comp_df, "match") * 100, Len(comp_df))
    ELSE Rate(0, 1)

(* lines 762-763: match_rate of the filter that hides 100% matches *)
filter_match_rate(comp_df) ==
    IF ~has_match_column(comp_df) THEN Raised("KeyError")
    ELSE IF Len(comp_df) > 0 THEN Rate(count(comp_df, "match") * 100, Len(comp_df))
    ELSE Rate(0, 1)

(* lines 805-806: match_rate of the per-item detail view, a numpy integer  *)
(* divided without a guard (0 / 0 is nan there)                            *)
detail_match_rate(comp_df) ==
    IF ~has_match_column(comp_df) THEN Raised("KeyError")
    ELSE IF Len(comp_df) = 0 THEN Raised("nan")
    ELSE Rate(count(comp_df, "match") * 100, Len(comp_df))

(* lines 254-255: match_rate of the issues sheet *)
issues_match_rate(comp_df) ==
    IF ~has_match_column(comp_df) THEN Raised("KeyError")
    ELSE IF Len(comp_df) > 0 THEN Rate(count(comp_df, "match") * 100, Len(comp_df))
    ELSE Rate(0, 1)

(* rate < 100.0 *)
below_100(rate) == rate.num < 100 * rate.den

(* lines 727-807 for one item: the on-screen summary, the filter, and the  *)
(* detail view, which is shown only for an item the filter does not hide   *)
screen_percentages(comp_df) ==
    LET shown == filter_match_rate(comp_df)
    IN  [screen |-> screen_match_percentage(comp_df),
         filter |-> shown,
         detail |-> IF shown.error = "none" /\ shown.num = 100 * shown.den
                       THEN Raised("hidden")
                       ELSE detail_match_rate(comp_df)]

(* ---------------------------- issues sheet ----------------------------- *)
Blank == StrV(<<>>)

(* source_row[col].values[0] if col in source_row.columns else '' *)
info_field(source_row_, col) ==
    IF col \in Range(source_row_.columns) THEN source_row_.rows[1][col] ELSE Blank

(* lines 241-250 and 260-272: the descriptive fields of an item *)
source_info(source_df_, key) ==
    LET source_row_ == filter_rows(source_df_, "Item Name", key)
    IN  IF ~empty(source_row_)
           THEN [form_name |-> info_field(source_row_, "Form Name"),
                 form_label |-> info_field(source_row_, "Form Label"),
                 form_short_label |-> info_field(source_row_, "Form Short Label"),
                 item_group_name |-> info_field(source_row_, "Item Group Name"),
                 item_group_label |-> info_field(source_row_, "Item Group Label")]
           ELSE [form_name |-> Blank, form_label |-> Blank, form_short_label |-> Blank,
                 item_group_name |-> Blank, item_group_label |-> Blank]

(* lines 283-290: the Issue Type text, kept as its parts *)
issue_type(row, source_name_, target_name_) ==
    CASE row.match = "mismatch" ->
            [column_name |-> row.column_name, wording |-> "Value mismatch",
             sides |-> <<source_name_, target_name_>>,
             shown |-> <<row.source_value, row.target_value>>]
      [] row.match = "missing_target" ->
            [column_name |-> row.column_name, wording |-> "Missing in",
             sides |-> <<target_name_, source_name_>>,
             shown |-> <<row.source_value>>]
      [] row.match = "missing_source" ->
            [column_name |-> row.column_name, wording |-> "Missing in",
             sides |-> <<source_name_, target_name_>>,
             shown |-> <<row.target_value>>]
      [] OTHER ->
            [column_name |-> row.column_name, wording |-> "Note",
             sides |-> row.note, shown |-> <<>>]

item_issues_mismatch_only(data, source_name_, target_name_, source_df_) ==
    LET info == source_info(source_df_, data.item_name)
        issue_rows == SelectSeq(data.comparison_df, LAMBDA r : r.match = "mismatch")
    IN  [j \in 1..Len(issue_rows) |->
            [item_name |-> data.item_name,
             form_name |-> info.form_name,
             form_label |-> info.form_label,
             form_short_label |-> info.form_short_label,
             item_group_name |-> info.item_group_name,
             item_group_label |-> info.item_group_label,
             issue_type |-> issue_type(issue_rows[j], source_name_, target_name_)]]

(* lines 275-300: the issue rows of one item *)
item_issues(data, source_name_, target_name_, source_df_) ==
    LET info == source_info(source_df_, data.item_name)
        issue_rows == SelectSeq(data.comparison_df, LAMBDA r : r.match # "match")
    IN  [j \in 1..Len(issue_rows) |->
            [item_name |-> data.item_name,
             form_name |-> info.form_name,
             form_label |-> info.form_label,
             form_short_label |-> info.form_short_label,
             item_group_name |-> info.item_group_name,
             item_group_label |-> info.item_group_label,
             issue_type |-> issue_type(issue_rows[j], source_name_, target_name_)]]

(* lines 252-300: issues_data *)
RECURSIVE issues_data(_, _, _, _)
issues_data(comparisons, source_name_, target_name_, source_df_) ==
    IF comparisons = <<>> THEN <<>>
    ELSE LET data == Head(comparisons)
             rest == issues_data(Tail(comparisons), source_name_, target_name_, source_df_)
         IN  IF below_100(issues_match_rate(data.comparison_df))
                THEN item_issues(data, source_name_, target_name_, source_df_) \o rest
                ELSE rest

(* ---------------------------- Dataset Preprocessor --------------------- *)
Upper(c) ==
    CASE c = "a" -> "A" [] c = "b" -> "B" [] c = "c" -> "C" [] c = "d" -> "D"
      [] c = "e" -> "E" [] c = "f" -> "F" [] c = "g" -> "G" [] c = "h" -> "H"
      [] c = "i" -> "I" [] c = "j" -> "J" [] c = "k" -> "K" [] c = "l" -> "L"
      [] c = "m" -> "M" [] c = "n" -> "N" [] c = "o" -> "O" [] c = "p" -> "P"
      [] c = "q" -> "Q" [] c = "r" -> "R" [] c = "s" -> "S" [] c = "t" -> "T"
      [] c = "u" -> "U" [] c = "v" -> "V" [] c = "w" -> "W" [] c = "x" -> "X"
      [] c = "y" -> "Y" [] c = "z" -> "Z" [] OTHER -> c

(* s.upper() *)
upper(s) == [i \in 1..Len(s) |-> Upper(s[i])]

columns_to_remove ==
    <<"Modification comments + Highlight Cells where change made", "Library source">>

trial_column_names ==
    <<"Used in trial (Y, N, Mod)", "Used in trial (Y, N, Mod) ", "Used in trial">>

(* df.drop(columns=[col]) *)
drop_column(df, col) ==
    LET kept == SelectSeq(df.columns, LAMBDA c : c # col)
    IN  [columns |-> kept,
         rows |-> [i \in 1..Len(df.rows) |-> [c \in Range(kept) |-> df.rows[i][c]]]]

(* lines 47-49 *)
RECURSIVE remove_columns(_, _)
remove_columns(df, names) ==
    IF names = <<>> THEN df
    ELSE remove_columns(IF Head(names) \in Range(df.columns)
                           THEN drop_column(df, Head(names)) ELSE df,
                        Tail(names))

trial_column_last(columns, names) ==
    LET present == {i \in 1..Len(names) : names[i] \in Range(columns)}
    IN  IF present = {} THEN ""
        ELSE names[CHOOSE i \in present : \A j \in present : j <= i]

(* lines 58-62: the first accepted spelling that is a column, "" for None *)
RECURSIVE trial_column(_, _)
trial_column(columns, names) ==
    IF names = <<>> THEN ""
    ELSE IF Head(names) \in Range(columns) THEN Head(names)
    ELSE trial_column(columns, Tail(names))

used_in_trial_case_sensitive(v) == strip(str(v)) = <<"Y">>

(* line 67: df[trial_column].astype(str).str.strip().str.upper() == 'Y' *)
used_in_trial(v) == upper(strip(str(v))) = <<"Y">>

NoOutput == [df |-> EmptyDf, original_count |-> 0, filtered_count |-> 0, warning |-> FALSE]

process_ptd_dataframe_empty_without_column(df) ==
    LET cleaned == remove_columns(df, columns_to_remove)
        col == trial_column(cleaned.columns, trial_column_names)
        filtered == [columns |-> cleaned.columns,
                     rows |-> IF col # ""
                                 THEN SelectSeq(cleaned.rows, LAMBDA r : used_in_trial(r[col]))
                                 ELSE <<>>]
    IN  [df |-> filtered, original_count |-> Len(cleaned.rows),
         filtered_count |-> Len(filtered.rows), warning |-> FALSE]

(* lines 35-73; warning tells whether st.warning was called *)
process_ptd_dataframe(df) ==
    LET cleaned == remove_columns(df, columns_to_remove)
        col == trial_column(cleaned.columns, trial_column_names)
    IN  IF col # ""
           THEN LET filtered ==
                        [columns |-> cleaned.columns,
                         rows |-> SelectSeq(cleaned.rows, LAMBDA r : used_in_trial(r[col]))]
                IN  [df |-> filtered, original_count |-> Len(cleaned.rows),
                     filtered_count |-> Len(filtered.rows), warning |-> FALSE]
           ELSE [df |-> cleaned, original_count |-> Len(cleaned.rows),
                 filtered_count |-> Len(cleaned.rows), warning |-> TRUE]

(* ---------------------------- the session ------------------------------ *)
(* A dataset held in st.session_state is None or a DataFrame.              *)
NoneDf == [none |-> TRUE, columns |-> <<>>, rows |-> <<>>]
Some(df) == [none |-> FALSE, columns |-> df.columns, rows |-> df.rows]
Frame(held) == [columns |-> held.columns, rows |-> held.rows]

PTD_SDS == "PTD -> SDS"
SDS_PTD == "SDS -> PTD"
SDS_SDS == "SDS -> SDS"
Directions == {PTD_SDS, SDS_PTD, SDS_SDS}
InputMethods == {"paste", "upload"}

(* lines 351-364: the initial st.session_state; source_name, target_name   *)
(* and source_df are not set before the first comparison                   *)
initial_session_state ==
    [selected_items |-> <<>>,
     ptd_df |-> NoneDf,
     sds_df |-> NoneDf,
     comparison_direction |-> PTD_SDS,
     all_comparisons |-> <<>>,
     comparison_complete |-> FALSE,
     input_method |-> "paste",
     source_name |-> "",
     target_name |-> "",
     source_df |-> NoneDf]

(* lines 396-405 *)
left_label(direction) == IF direction = SDS_SDS THEN "SDS1" ELSE "PTD"
right_label(direction) == IF direction = SDS_SDS THEN "SDS2" ELSE "SDS"

(* The content of an input widget (text area or file uploader): filled     *)
(* tells whether it holds anything, parses whether parse_pasted_data /     *)
(* parse_uploaded_file returns a DataFrame (df) rather than None.          *)
NoInput == [filled |-> FALSE, parses |-> FALSE, df |-> EmptyDf]
Unparseable == [filled |-> TRUE, parses |-> FALSE, df |-> EmptyDf]
Parsed(df) == [filled |-> TRUE, parses |-> TRUE, df |-> df]

load_dataset_unset_on_failure(held, input, method, label) ==
    IF ~input.filled THEN held
    ELSE IF input.parses
        THEN IF label = "PTD" THEN Some(process_ptd_dataframe(input.df).df)
                               ELSE Some(input.df)
    ELSE NoneDf

(* lines 438-457 and 470-490 (paste), 512-538 and 550-576 (upload): the    *)
(* new value of st.session_state.ptd_df or .sds_df                         *)
load_dataset(held, input, method, label) ==
    IF ~input.filled THEN held
    ELSE IF input.parses
        THEN IF label = "PTD" THEN Some(process_ptd_dataframe(input.df).df)
                               ELSE Some(input.df)
    ELSE IF method = "upload" THEN NoneDf
    ELSE held

(* lines 341-343: set(df[column_name].dropna().unique()) *)
get_unique_items(df, column_name) ==
    {df.rows[i][column_name] : i \in {k \in 1..Len(df.rows) : ~isna(df.rows[k][column_name])}}

(* lines 591-605 *)
source_of(direction, ptd, sds) == IF direction = SDS_PTD THEN sds ELSE ptd
target_of(direction, ptd, sds) == IF direction = SDS_PTD THEN ptd ELSE sds
source_name_of(direction) ==
    CASE direction = PTD_SDS -> "PTD" [] direction = SDS_PTD -> "SDS" [] OTHER -> "SDS1"
target_name_of(direction) ==
    CASE direction = PTD_SDS -> "SDS" [] direction = SDS_PTD -> "PTD" [] OTHER -> "SDS2"

run_comparison_accumulating(previous, source_df_, target_df_, items, source_name_, target_name_) ==
    compare_items(previous, source_df_, target_df_, items, source_name_, target_name_)

(* lines 680-708: the result set of one Compare click *)
run_comparison(previous, source_df_, target_df_, items, source_name_, target_name_) ==
    compare_items(<<>>, source_df_, target_df_, items, source_name_, target_name_)

(* lines 197-300: the two sheets of the report *)
create_comprehensive_report(comparisons, source_name_, target_name_, source_df_) ==
    [generated |-> TRUE,
     summary |-> summary_data(comparisons),
     issues |-> issues_data(comparisons, source_name_, target_name_, source_df_)]

NoReport == [generated |-> FALSE, summary |-> <<>>, issues |-> <<>>]

(* lines 845-864 *)
report_of(ss) ==
    IF ss.comparison_complete /\ ss.all_comparisons # <<>>
       THEN create_comprehensive_report(ss.all_comparisons, ss.source_name,
                                        ss.target_name, Frame(ss.source_df))
       ELSE NoReport

(* lines 586-873: the part of a run with both datasets loaded; ss already  *)
(* holds the datasets of this run.  The multiselect offers all_items: on a *)
(* Compare click its value is sel, otherwise it is the selection held so   *)
(* far, as far as it is still on offer.                                    *)
compare_section(ss, compare_clicked, sel) ==
    LET direction == ss.comparison_direction
        source == Frame(source_of(direction, ss.ptd_df, ss.sds_df))
        target == Frame(target_of(direction, ss.ptd_df, ss.sds_df))
    IN  IF "Item Name" \notin Range(source.columns) \/ "Item Name" \notin Range(target.columns)
           THEN [session_state |-> ss, failure |-> "KeyError", report |-> NoReport]
           ELSE LET all_items == get_unique_items(source, "Item Name")
                                     \cup get_unique_items(target, "Item Name")
                    chosen == IF compare_clicked THEN sel
                              ELSE SelectSeq(ss.selected_items, LAMBDA x : x \in all_items)
                    selected == [ss EXCEPT !.selected_items = chosen]
                    compared ==
                        IF sel # <<>> /\ compare_clicked
                           THEN [selected EXCEPT
                                    !.all_comparisons =
                                        run_comparison(ss.all_comparisons, source, target, sel,
                                                       source_name_of(direction),
                                                       target_name_of(direction)),
                                    !.comparison_complete = TRUE,
                                    !.source_name = source_name_of(direction),
                                    !.target_name = target_name_of(direction),
                                    !.source_df = Some(source)]
                           ELSE selected
                IN  CHOOSE result \in {[session_state |-> after, failure |-> "none",
                                         report |-> report_of(after)] :
                                            after \in {compared}} : TRUE

(* lines 345-880: one run of the script *)
main(ss, w, compare_clicked, sel) ==
    LET loaded ==
            [ss EXCEPT
                !.input_method = w.input_method,
                !.comparison_direction = w.comparison_direction,
                !.ptd_df = load_dataset(ss.ptd_df, w.left, w.input_method,
                                        left_label(w.comparison_direction)),
                !.sds_df = load_dataset(ss.sds_df, w.right, w.input_method,
                                        right_label(w.comparison_direction))]
    IN  CHOOSE result \in
            {IF ~held.ptd_df.none /\ ~held.sds_df.none
                THEN compare_section(held, compare_clicked, sel)
                ELSE [session_state |-> held, failure |-> "none", report |-> NoReport] :
                    held \in {loaded}} : TRUE

NoResult == [status |-> "none", symbol |-> "", note |-> <<>>]


(* ------------------- the parts of the state a specification leaves idle *)
CmpIdle == val1 = NaN /\ val2 = NaN /\ cmp = NoResult /\ cmp_swapped = NoResult

CoreIdle ==
    /\ source_df = EmptyDf /\ target_df = EmptyDf
    /\ source_name = "PTD" /\ target_name = "SDS"
    /\ item_name = None
    /\ source_row = EmptyDf /\ target_row = EmptyDf /\ match_type = "None"
    /\ selected_items = <<>>
    /\ all_comparisons = <<>>
    /\ summary_df = <<>>
    /\ issues_df = <<>>

PctIdle == pct_df = <<>> /\ pct_out = <<>>

PtdIdle == raw_df = EmptyDf /\ ptd_out = NoOutput

SessionIdle ==
    /\ session_state = <<>> /\ widgets = <<>> /\ output = <<>> /\ history = <<>>

(* ------------------- inputs of the core comparison --------------------- *)
AGE == StrV(<<"A", "G", "E">>)
WEIGHT == StrV(<<"W", "E", "I", "G", "H", "T">>)
HEIGHT == StrV(<<"H", "E", "I", "G", "H", "T">>)
DEMOG == StrV(<<"D", "E", "M", "O", "G">>)
VITALS == StrV(<<"V", "I", "T", "A", "L", "S">>)

ItemKeys == {AGE, WEIGHT, HEIGHT}

FullRow(item, group, form, units, modified, comments) ==
    [c \in {"Item Name", "Item Group Label", "Form Label", "Units",
            "Definition Last Modified", "Relationship Last Modified", "Comments"} |->
        CASE c = "Item Name" -> item
          [] c = "Item Group Label" -> group
          [] c = "Form Label" -> form
          [] c = "Units" -> units
          [] c = "Definition Last Modified" -> modified
          [] c = "Relationship Last Modified" -> modified
          [] c = "Comments" -> comments]

RowPool ==
    {FullRow(AGE, DEMOG, StrV(<<"F", "1">>), StrV(<<"k", "g">>), IntV(1), StrV(<<"c">>)),
     FullRow(AGE, VITALS, StrV(<<"F", "2">>), StrV(<<"k", "g", " ">>), IntV(2), NaN),
     FullRow(WEIGHT, VITALS, StrV(<<"F", "2">>), NaN, IntV(1), StrV(<<"c">>))}

ColumnLists ==
    {<<"Item Name", "Item Group Label", "Form Label", "Units", "Comments",
       "Definition Last Modified">>,
     <<"Form Label", "Item Name", "Comments", "Relationship Last Modified",
       "Item Group Label">>}

Project(row, cols) == [c \in Range(cols) |-> row[c]]

DataFrames ==
    {[columns |-> cols, rows |-> [i \in 1..Len(rs) |-> Project(rs[i], cols)]] :
        cols \in ColumnLists,
        rs \in UNION {[1..k -> RowPool] : k \in 0..MaxRows}}

(* lines 591-605: the labels of the three comparison directions *)
NamePairs == {<<"PTD", "SDS">>, <<"SDS", "PTD">>, <<"SDS1", "SDS2">>}

(* selections: lists of distinct item keys *)
Selections ==
    {sel \in UNION {[1..k -> ItemKeys] : k \in 1..MaxSelected} :
        \A i, j \in 1..Len(sel) : i # j => sel[i] # sel[j]}

(* ------------------- specification of the core comparison -------------- *)
InitCore ==
    /\ pc = "loaded"
    /\ val1 = NaN /\ val2 = NaN /\ cmp = NoResult /\ cmp_swapped = NoResult
    /\ source_df \in DataFrames
    /\ target_df \in DataFrames
    /\ \E names \in NamePairs : source_name = names[1] /\ target_name = names[2]
    /\ item_name = None
    /\ source_row = EmptyDf /\ target_row = EmptyDf /\ match_type = "None"
    /\ selected_items = <<>>
    /\ all_comparisons = <<>>
    /\ summary_df = <<>>
    /\ issues_df = <<>>
    /\ PctIdle
    /\ PtdIdle
    /\ SessionIdle

(* one call of find_matching_rows *)
MatchItem(key) ==
    /\ pc = "loaded"
    /\ LET m == find_matching_rows(source_df, target_df, key)
       IN  /\ source_row' = m.source_row
           /\ target_row' = m.target_row
           /\ match_type' = m.match_type
    /\ item_name' = key
    /\ pc' = "matched"
    /\ UNCHANGED <<cmp_vars, input_vars, run_vars, issues_df, pct_vars, ptd_vars, session_vars>>

(* lines 679-718: the Compare Selected Items handler *)
CompareSelected(sel) ==
    /\ pc = "loaded"
    /\ selected_items' = sel
    /\ all_comparisons' = compare_items(<<>>, source_df, target_df, sel,
                                        source_name, target_name)
    /\ pc' = "compared"
    /\ UNCHANGED <<cmp_vars, input_vars, match_vars, summary_df, issues_df, pct_vars, ptd_vars, session_vars>>

(* lines 845-864 and 203-233: the summary sheet of the report *)
GenerateReport ==
    /\ pc = "compared"
    /\ all_comparisons # <<>>
    /\ summary_df' = summary_data(all_comparisons)
    /\ issues_df' = issues_data(all_comparisons, source_name, target_name, source_df)
    /\ pc' = "reported"
    /\ UNCHANGED <<cmp_vars, input_vars, match_vars, selected_items, all_comparisons, pct_vars, ptd_vars, session_vars>>

NextCore ==
    \/ \E key \in ItemKeys : MatchItem(key)
    \/ \E sel \in Selections : CompareSelected(sel)
    \/ GenerateReport

SpecCore == InitCore /\ [][NextCore]_vars

(* ------------------- specification of the Value Comparator ------------- *)
InitCmp ==
    /\ pc = "input"
    /\ val1 \in Values
    /\ val2 \in Values
    /\ cmp = NoResult
    /\ cmp_swapped = NoResult
    /\ CoreIdle
    /\ PctIdle
    /\ PtdIdle
    /\ SessionIdle

CompareValues ==
    /\ pc = "input"
    /\ cmp' = compare_values_vectorized(val1, val2)
    /\ cmp_swapped' = compare_values_vectorized(val2, val1)
    /\ pc' = "compared"
    /\ UNCHANGED <<val1, val2, core_vars, pct_vars, ptd_vars, session_vars>>

NextCmp == CompareValues

SpecCmp == InitCmp /\ [][NextCmp]_vars

(* ------------------- specification of the match percentage ------------- *)
ComparisonFrames ==
    UNION {[1..k -> {[match |-> st] : st \in Statuses}] : k \in 0..MaxColumns}

InitPct ==
    /\ pc = "frame"
    /\ pct_df \in ComparisonFrames
    /\ pct_out = <<>>
    /\ CmpIdle
    /\ CoreIdle
    /\ PtdIdle
    /\ SessionIdle

(* the percentages of one item, in the report and on the screen *)
ComputePercentages ==
    /\ pc = "frame"
    /\ pct_out' = [summary |-> summary_match_percentage(pct_df)] @@ screen_percentages(pct_df)
    /\ pc' = "computed"
    /\ UNCHANGED <<pct_df, cmp_vars, core_vars, ptd_vars, session_vars>>

NextPct == ComputePercentages

SpecPct == InitPct /\ [][NextPct]_vars

(* ------------------- specification of the Dataset Preprocessor --------- *)
TrialValues ==
    <<StrV(<<"Y">>), StrV(<<"N">>), StrV(<<"M", "o", "d">>), StrV(<<"y">>),
      StrV(<<" ", "y", " ">>), NaN>>

(* the value a row holds under another spelling of the trial header: the   *)
(* next one of TrialValues, so that an empty cell occurs there too         *)
NextTrialValue(v) ==
    LET i == CHOOSE k \in 1..Len(TrialValues) : TrialValues[k] = v
    IN  TrialValues[(i % Len(TrialValues)) + 1]

OptionalColumns ==
    <<"Library source", "Used in trial", "Used in trial (Y, N, Mod) ",
      "Used in trial (Y, N, Mod)">>

RawColumnLists ==
    {<<"Item Name", "Modification comments + Highlight Cells where change made",
       "Library source ">> \o SelectSeq(OptionalColumns, LAMBDA c : c \in chosen) :
        chosen \in SUBSET Range(OptionalColumns)}

RawCell(col, i, v) ==
    CASE col = "Item Name" -> IntV(i)
      [] col = "Used in trial (Y, N, Mod)" -> v
      [] col = "Used in trial (Y, N, Mod) " -> NextTrialValue(v)
      [] col = "Used in trial" -> NextTrialValue(NextTrialValue(v))
      [] OTHER -> StrV(<<"x">>)

RawFrames ==
    {[columns |-> cols,
      rows |-> [i \in 1..Len(vs) |-> [c \in Range(cols) |-> RawCell(c, i, vs[i])]]] :
        cols \in RawColumnLists,
        vs \in UNION {[1..k -> Range(TrialValues) \ {NaN}] : k \in 0..MaxPtdRows}}

InitPtd ==
    /\ pc = "raw"
    /\ raw_df \in RawFrames
    /\ ptd_out = NoOutput
    /\ CmpIdle
    /\ CoreIdle
    /\ PctIdle
    /\ SessionIdle

ProcessPtd ==
    /\ pc = "raw"
    /\ ptd_out' = process_ptd_dataframe(raw_df)
    /\ pc' = "processed"
    /\ UNCHANGED <<raw_df, cmp_vars, core_vars, pct_vars, session_vars>>

NextPtd == ProcessPtd

SpecPtd == InitPtd /\ [][NextPtd]_vars

(* ------------------- specification of the session ---------------------- *)
SessionFrames ==
    {[columns |-> <<"Item Name", "Units", "Used in trial (Y, N, Mod)">>,
      rows |-> <<[c \in {"Item Name", "Units", "Used in trial (Y, N, Mod)"} |->
                    CASE c = "Item Name" -> AGE [] c = "Units" -> StrV(<<"k", "g">>)
                      [] OTHER -> StrV(<<"Y">>)],
                 [c \in {"Item Name", "Units", "Used in trial (Y, N, Mod)"} |->
                    CASE c = "Item Name" -> WEIGHT [] c = "Units" -> StrV(<<"k", "g">>)
                      [] OTHER -> StrV(<<"N">>)]>>],
     [columns |-> <<"Units">>,
      rows |-> <<[c \in {"Units"} |-> StrV(<<"k", "g">>)]>>]}

WidgetInputs == {NoInput, Unparseable} \cup {Parsed(df) : df \in SessionFrames}

NoRun == [selected |-> <<>>, source_df |-> EmptyDf, target_df |-> EmptyDf,
          source_name |-> "", target_name |-> ""]

Init ==
    /\ pc = "session"
    /\ session_state = initial_session_state
    /\ widgets = [input_method |-> "paste", comparison_direction |-> PTD_SDS,
                  left |-> NoInput, right |-> NoInput]
    /\ output = [failure |-> "none", report |-> NoReport]
    /\ history = [ptd_preprocessed |-> FALSE, sds_preprocessed |-> FALSE,
                  last_run |-> NoRun, previous_selected |-> <<>>]
    /\ CmpIdle
    /\ CoreIdle
    /\ PctIdle
    /\ PtdIdle

(* whether the dataset a side holds after the run went through             *)
(* process_ptd_dataframe                                                   *)
preprocessed_after(before, input, method, label) ==
    IF ~input.filled THEN before
    ELSE IF input.parses THEN label = "PTD"
    ELSE IF method = "upload" THEN FALSE
    ELSE before

(* one run of the script with the widgets as w *)
Run(w, compare_clicked, sel) ==
    \E result \in {main(session_state, w, compare_clicked, sel)} :
    LET ss == result.session_state
        ran == compare_clicked /\ sel # <<>> /\ result.failure = "none"
    IN  /\ widgets' = w
        /\ session_state' = ss
        /\ output' = [failure |-> result.failure, report |-> result.report]
        /\ history' =
              [ptd_preprocessed |->
                   preprocessed_after(history.ptd_preprocessed, w.left, w.input_method,
                                      left_label(w.comparison_direction)),
               sds_preprocessed |->
                   preprocessed_after(history.sds_preprocessed, w.right, w.input_method,
                                      right_label(w.comparison_direction)),
               last_run |->
                   IF ran
                      THEN [selected |-> sel,
                            source_df |-> Frame(source_of(ss.comparison_direction,
                                                          ss.ptd_df, ss.sds_df)),
                            target_df |-> Frame(target_of(ss.comparison_direction,
                                                          ss.ptd_df, ss.sds_df)),
                            source_name |-> source_name_of(ss.comparison_direction),
                            target_name |-> target_name_of(ss.comparison_direction)]
                      ELSE history.last_run,
               previous_selected |->
                   IF ran THEN history.last_run.selected ELSE history.previous_selected]
        /\ UNCHANGED <<pc, cmp_vars, core_vars, pct_vars, ptd_vars>>

(* lines 369-375: the input method radio; the other method's widgets are   *)
(* new ones and start empty                                                *)
ChooseInputMethod(m) ==
    /\ pc = "session"
    /\ m # widgets.input_method
    /\ Run([widgets EXCEPT !.input_method = m, !.left = NoInput, !.right = NoInput],
           FALSE, <<>>)

(* lines 379-405: the direction radio; between SDS -> SDS and the other    *)
(* directions the widget keys change, and the new widgets start empty      *)
ChooseDirection(d) ==
    /\ pc = "session"
    /\ d # widgets.comparison_direction
    /\ IF left_label(d) = left_label(widgets.comparison_direction)
          THEN Run([widgets EXCEPT !.comparison_direction = d], FALSE, <<>>)
          ELSE Run([widgets EXCEPT !.comparison_direction = d,
                                   !.left = NoInput, !.right = NoInput], FALSE, <<>>)

(* the user pastes or uploads (or clears) the left dataset *)
ProvideLeft(input) ==
    /\ pc = "session"
    /\ input # widgets.left
    /\ Run([widgets EXCEPT !.left = input], FALSE, <<>>)

(* the user pastes or uploads (or clears) the right dataset *)
ProvideRight(input) ==
    /\ pc = "session"
    /\ input # widgets.right
    /\ Run([widgets EXCEPT !.right = input], FALSE, <<>>)

(* the items the multiselect offers in the current session *)
all_items ==
    IF session_state.ptd_df.none \/ session_state.sds_df.none
          \/ "Item Name" \notin Range(session_state.ptd_df.columns)
          \/ "Item Name" \notin Range(session_state.sds_df.columns)
       THEN {}
       ELSE get_unique_items(Frame(session_state.ptd_df), "Item Name")
            \cup get_unique_items(Frame(session_state.sds_df), "Item Name")

(* lines 663-718: the user selects items and clicks Compare Selected Items *)
ClickCompare(sel) ==
    /\ pc = "session"
    /\ Range(sel) \subseteq all_items
    /\ Run(widgets, TRUE, sel)

Next ==
    \/ \E m \in InputMethods : ChooseInputMethod(m)
    \/ \E d \in Directions : ChooseDirection(d)
    \/ \E input \in WidgetInputs : ProvideLeft(input)
    \/ \E input \in WidgetInputs : ProvideRight(input)
    \/ \E sel \in Selections : ClickCompare(sel)

Spec == Init /\ [][Next]_vars

(* --------------------------- claims ------------------------------------ *)

(* The trimmed string form of a present value, written out independently   *)
(* of the comparator: drop whitespace characters from both ends.           *)
IsTrimOf(t, s) ==
    \E i \in 0..Len(s), j \in 0..Len(s) :
        /\ i + j <= Len(s)
        /\ t = SubSeq(s, i + 1, Len(s) - j)
        /\ \A p \in 1..i : s[p] \in Whitespace
        /\ \A p \in (Len(s) - j + 1)..Len(s) : s[p] \in Whitespace
        /\ t # <<>> => (t[1] \notin Whitespace /\ t[Len(t)] \notin Whitespace)

TextOf(v) == IF v.kind = "int" THEN Digits(v.n) ELSE v.chars

EqualAfterTrim(a, b) ==
    \E t \in Strings \cup {<<"k", "g">>, <<"K", "G">>} \cup {Digits(i) : i \in Ints} :
        IsTrimOf(t, TextOf(a)) /\ IsTrimOf(t, TextOf(b))

(* C1: the comparator returns exactly one of the four statuses; it is      *)
(* match iff both values are absent or both are present and equal after    *)
(* trimming surrounding whitespace (no case folding), missing_source iff   *)
(* only the source value is absent, missing_target iff only the target     *)
(* value is absent, and mismatch in every other case.                      *)
C1_StatusContract ==
    pc = "compared" =>
        /\ cmp.status \in Statuses
        /\ cmp.status = "match" <=>
              \/ isna(val1) /\ isna(val2)
              \/ ~isna(val1) /\ ~isna(val2) /\ EqualAfterTrim(val1, val2)
        /\ cmp.status = "missing_source" <=> (isna(val1) /\ ~isna(val2))
        /\ cmp.status = "missing_target" <=> (~isna(val1) /\ isna(val2))
        /\ cmp.status = "mismatch" <=>
              (~isna(val1) /\ ~isna(val2) /\ ~EqualAfterTrim(val1, val2))

C1_Witness ==
    /\ pc = "compared"
    /\ val1 = StrV(<<"k", "g">>)
    /\ val2 = StrV(<<"K", "G", " ">>)
    /\ cmp.status = "mismatch"

SwapStatus(s) ==
    CASE s = "missing_source" -> "missing_target"
      [] s = "missing_target" -> "missing_source"
      [] OTHER -> s

(* C2: swapping the two arguments of the comparison maps missing_source to *)
(* missing_target and back, and leaves match and mismatch unchanged.       *)
C2_SwapSymmetry ==
    pc = "compared" => cmp_swapped.status = SwapStatus(cmp.status)

C2_Witness ==
    /\ pc = "compared"
    /\ cmp.status = "missing_source"
    /\ cmp_swapped.status = "missing_target"
    /\ val2 = StrV(<<"k", " ">>)

(* ------------------- claims about the match percentage ----------------- *)
Tally(df, st) == Cardinality({j \in 1..Len(df) : df[j].match = st})

IsPercentageOf(rate, df) ==
    /\ rate.error = "none"
    /\ IF Len(df) > 0 THEN rate.num * Len(df) = Tally(df, "match") * 100 * rate.den
                      ELSE rate.num = 0

Spellings ==
    {"Used in trial (Y, N, Mod)", "Used in trial (Y, N, Mod) ", "Used in trial"}

RawColumns == Range(raw_df.columns)

(* the trial-inclusion column of the raw dataset, by the documented order *)
ChosenSpelling ==
    IF "Used in trial (Y, N, Mod)" \in RawColumns THEN "Used in trial (Y, N, Mod)"
    ELSE IF "Used in trial (Y, N, Mod) " \in RawColumns THEN "Used in trial (Y, N, Mod) "
    ELSE "Used in trial"

(* the text of the cell is Y or y once surrounding whitespace is dropped *)
IsYes(v) ==
    /\ v.kind = "str"
    /\ \E t \in {<<"Y">>, <<"y">>} : IsTrimOf(t, v.chars)

(* the Item Name cells of a list of rows: they number the raw rows *)
Numbers(rows) == [i \in 1..Len(rows) |-> rows[i]["Item Name"].n]

RECURSIVE YesRows(_, _)
YesRows(rows, col) ==
    IF rows = <<>> THEN <<>>
    ELSE (IF IsYes(Head(rows)[col]) THEN <<Head(rows)["Item Name"].n>> ELSE <<>>)
         \o YesRows(Tail(rows), col)

SameCells(out_rows, cols) ==
    \A i \in 1..Len(out_rows) :
        /\ DOMAIN out_rows[i] = cols
        /\ \A c \in cols : out_rows[i][c] = raw_df.rows[out_rows[i]["Item Name"].n][c]

(* C14: with a trial-inclusion column, exactly the rows whose value there  *)
(* is Y after trimming and upper-casing are retained, in their original    *)
(* order, and the row counts before and after filtering are returned.      *)
C14_KeepsUsedInTrialRows ==
    (pc = "processed" /\ RawColumns \cap Spellings # {}) =>
        /\ Numbers(ptd_out.df.rows) = YesRows(raw_df.rows, ChosenSpelling)
        /\ SameCells(ptd_out.df.rows, Range(ptd_out.df.columns))
        /\ ptd_out.original_count = Len(raw_df.rows)
        /\ ptd_out.filtered_count = Len(ptd_out.df.rows)

C14_Witness ==
    /\ pc = "processed"
    /\ "Used in trial (Y, N, Mod)" \in RawColumns
    /\ [i \in 1..Len(raw_df.rows) |-> raw_df.rows[i]["Used in trial (Y, N, Mod)"]]
          = <<StrV(<<"Y">>), StrV(<<"N">>), StrV(<<"M", "o", "d">>), StrV(<<"y">>)>>
    /\ Numbers(ptd_out.df.rows) = <<1, 4>>
    /\ ptd_out.original_count = 4
    /\ ptd_out.filtered_count = 2

(* C15: without any accepted trial-inclusion header the filter is skipped: *)
(* every row is returned unchanged apart from the two dropped columns, the *)
(* two counts are equal, and a warning is emitted.                         *)
C15_NoTrialColumnPassThrough ==
    (pc = "processed" /\ RawColumns \cap Spellings = {}) =>
        /\ Numbers(ptd_out.df.rows) = [i \in 1..Len(raw_df.rows) |-> i]
        /\ SameCells(ptd_out.df.rows,
                     RawColumns \ {"Library source",
                                   "Modification comments + Highlight Cells where change made"})
        /\ ptd_out.original_count = Len(raw_df.rows)
        /\ ptd_out.filtered_count = Len(raw_df.rows)
        /\ ptd_out.warning

C15_Witness ==
    /\ pc = "processed"
    /\ RawColumns \cap Spellings = {}
    /\ "Library source" \in RawColumns
    /\ Len(raw_df.rows) = 3
    /\ Len(ptd_out.df.rows) = 3
    /\ ptd_out.warning

(* C19: the trial-inclusion column is the first present of the three       *)
(* spellings in their fixed order, and only it is used for filtering; the  *)
(* modification-comments and library-source columns are removed by exact   *)
(* name and every other column is kept, in order.                          *)
C19_SpellingOrderAndDroppedColumns ==
    pc = "processed" =>
        /\ ptd_out.df.columns =
              SelectSeq(raw_df.columns,
                        LAMBDA c : /\ c # "Library source"
                                   /\ c # "Modification comments + Highlight Cells where change made")
        /\ RawColumns \cap Spellings # {} =>
              /\ ~ptd_out.warning
              /\ \A i \in 1..Len(raw_df.rows) :
                    (\E k \in 1..Len(ptd_out.df.rows) : ptd_out.df.rows[k]["Item Name"].n = i)
                       <=> IsYes(raw_df.rows[i][ChosenSpelling])

C19_Witness ==
    /\ pc = "processed"
    /\ Spellings \subseteq RawColumns
    /\ "Library source" \in RawColumns
    /\ "Library source " \in Range(ptd_out.df.columns)
    /\ Len(raw_df.rows) = 2
    /\ raw_df.rows[1]["Used in trial (Y, N, Mod)"] = StrV(<<"Y">>)
    /\ raw_df.rows[2]["Used in trial (Y, N, Mod) "] = StrV(<<"y">>)
    /\ Numbers(ptd_out.df.rows) = <<1>>

(* ------------------- claims about the Row Matcher ---------------------- *)
HasItem(df, key) == \E i \in 1..Len(df.rows) : df.rows[i]["Item Name"] = key

(* the rows of df whose column col holds v, in dataset order *)
RECURSIVE RowsWith(_, _, _)
RowsWith(rows, col, v) ==
    IF rows = <<>> THEN <<>>
    ELSE IF Head(rows)[col] = v THEN <<Head(rows)>> \o RowsWith(Tail(rows), col, v)
    ELSE RowsWith(Tail(rows), col, v)

FirstRow(df, key) == RowsWith(df.rows, "Item Name", key)[1]

(* C3: an item key with an Item Name row in both datasets is matched by    *)
(* Item Name, returning exactly those rows, even when a lookup by Item     *)
(* Group Label or Form Label would also find rows.                         *)
C3_ItemNamePrecedence ==
    (pc = "matched" /\ HasItem(source_df, item_name) /\ HasItem(target_df, item_name)) =>
        /\ match_type = "Item Name"
        /\ source_row.rows = RowsWith(source_df.rows, "Item Name", item_name)
        /\ target_row.rows = RowsWith(target_df.rows, "Item Name", item_name)

C3_Witness ==
    /\ pc = "matched"
    /\ HasItem(source_df, item_name) /\ HasItem(target_df, item_name)
    /\ \E i \in 1..Len(target_df.rows) :
          /\ target_df.rows[i]["Item Name"] # item_name
          /\ target_df.rows[i]["Item Group Label"] =
                 FirstRow(source_df, item_name)["Item Group Label"]
    /\ match_type = "Item Name"

(* C4: when the Item Name lookup finds a row in at least one dataset, both *)
(* lookup results are returned (one may be empty), tagged Item Name.       *)
C4_EitherSideItemName ==
    (pc = "matched" /\ (HasItem(source_df, item_name) \/ HasItem(target_df, item_name))) =>
        /\ match_type = "Item Name"
        /\ source_row.rows = RowsWith(source_df.rows, "Item Name", item_name)
        /\ target_row.rows = RowsWith(target_df.rows, "Item Name", item_name)

C4_Witness ==
    /\ pc = "matched"
    /\ HasItem(source_df, item_name) /\ ~HasItem(target_df, item_name)
    /\ match_type = "Item Name"
    /\ Len(source_row.rows) = 2
    /\ target_row.rows = <<>>

(* C5: when only one dataset has a row for the item key and the other has  *)
(* a row sharing that row's Item Group Label, the matcher falls back and   *)
(* returns the rows with that label, tagged Item Group Label.              *)
C5_GroupLabelFallback ==
    /\ (/\ pc = "matched"
        /\ HasItem(source_df, item_name) /\ ~HasItem(target_df, item_name)
        /\ RowsWith(target_df.rows, "Item Group Label",
                    FirstRow(source_df, item_name)["Item Group Label"]) # <<>>)
       => /\ match_type = "Item Group Label"
          /\ target_row.rows = RowsWith(target_df.rows, "Item Group Label",
                                   FirstRow(source_df, item_name)["Item Group Label"])
    /\ (/\ pc = "matched"
        /\ HasItem(target_df, item_name) /\ ~HasItem(source_df, item_name)
        /\ RowsWith(source_df.rows, "Item Group Label",
                    FirstRow(target_df, item_name)["Item Group Label"]) # <<>>)
       => /\ match_type = "Item Group Label"
          /\ source_row.rows = RowsWith(source_df.rows, "Item Group Label",
                                   FirstRow(target_df, item_name)["Item Group Label"])

(* ------------------- claims about the comparison run ------------------- *)
Found(key) == HasItem(source_df, key) \/ HasItem(target_df, key)

(* C6: an item key with no row in either dataset is returned with both     *)
(* sides empty and no match type, and the run skips it: the result set     *)
(* holds one entry for exactly the selected items found on some side, in   *)
(* selection order, with source_exists / target_exists telling which side. *)
C6_UnmatchedSkipped ==
    /\ (pc = "matched" /\ ~Found(item_name)) =>
          /\ source_row.rows = <<>> /\ target_row.rows = <<>>
          /\ match_type = "None"
    /\ pc = "compared" =>
          /\ [i \in 1..Len(all_comparisons) |-> all_comparisons[i].item_name]
                = SelectSeq(selected_items, Found)
          /\ \A i \in 1..Len(all_comparisons) :
                /\ all_comparisons[i].source_exists
                      = HasItem(source_df, all_comparisons[i].item_name)
                /\ all_comparisons[i].target_exists
                      = HasItem(target_df, all_comparisons[i].item_name)

C6_Witness ==
    /\ pc = "compared"
    /\ Len(selected_items) = 2
    /\ ~Found(selected_items[1])
    /\ Len(all_comparisons) = 1
    /\ all_comparisons[1].item_name = selected_items[2]
    /\ all_comparisons[1].source_exists /\ ~all_comparisons[1].target_exists

(* ------------------- claims about the Comparison Builder --------------- *)
Records ==
    UNION {{<<i, j>> : j \in 1..Len(all_comparisons[i].comparison_df)} :
              i \in 1..Len(all_comparisons)}
Rec(ij) == all_comparisons[ij[1]].comparison_df[ij[2]]
Item(ij) == all_comparisons[ij[1]].item_name

(* C7: one record per source column other than the two ignored columns,    *)
(* in the source dataset's column order; a column only in the target and   *)
(* an ignored column never produce a record.                               *)
C7_SourceColumnsInOrder ==
    pc = "compared" =>
        \A i \in 1..Len(all_comparisons) :
            LET df == all_comparisons[i].comparison_df
                names == [j \in 1..Len(df) |-> df[j].column_name]
            IN  /\ names = SelectSeq(source_df.columns,
                               LAMBDA c : c # "Definition Last Modified"
                                          /\ c # "Relationship Last Modified")
                /\ \A j \in 1..Len(df) :
                      /\ names[j] \in Range(source_df.columns)
                      /\ names[j] \notin {"Definition Last Modified",
                                          "Relationship Last Modified"}
                      /\ \A k \in 1..Len(df) : names[j] = names[k] => j = k

C7_Witness ==
    /\ pc = "compared"
    /\ all_comparisons # <<>>
    /\ "Relationship Last Modified" \in Range(source_df.columns)
    /\ "Units" \in Range(target_df.columns) \ Range(source_df.columns)
    /\ Len(all_comparisons[1].comparison_df) = 4
    /\ all_comparisons[1].comparison_df[1].column_name = "Form Label"

(* C8: the target value of a record is the column-not-in-target text only  *)
(* when the column is not a column of the target dataset.                  *)
C8_SentinelOnlyForMissingColumn ==
    pc = "compared" =>
        \A ij \in Records :
            Rec(ij).target_value = ColumnNotIn(target_name)
                => Rec(ij).column_name \notin Range(target_df.columns)

SourcePresent(ij) ==
    /\ HasItem(source_df, Item(ij))
    /\ ~isna(FirstRow(source_df, Item(ij))[Rec(ij).column_name])

ColumnAbsentFromTarget(ij) ==
    /\ SourcePresent(ij)
    /\ Rec(ij).column_name \notin Range(target_df.columns)

Below100(i) ==
    Tally(all_comparisons[i].comparison_df, "match") * 100
        < 100 * Len(all_comparisons[i].comparison_df)

HasIssueRow(ij) ==
    \E k \in 1..Len(issues_df) :
        /\ issues_df[k].item_name = Item(ij)
        /\ issues_df[k].issue_type.column_name = Rec(ij).column_name

(* C12: the issues table has a row for an (item, column) pair iff the      *)
(* item's match percentage is below 100 and the column's record is not a   *)
(* match; an item whose records all match contributes no issue row.        *)
C12_IssuesExactlyNonMatches ==
    pc = "reported" =>
        /\ \A ij \in Records :
              HasIssueRow(ij) <=> (Below100(ij[1]) /\ Rec(ij).match # "match")
        /\ \A k \in 1..Len(issues_df) :
              \E ij \in Records :
                  /\ issues_df[k].item_name = Item(ij)
                  /\ issues_df[k].issue_type.column_name = Rec(ij).column_name
        /\ \A i \in 1..Len(all_comparisons) :
              (\A j \in 1..Len(all_comparisons[i].comparison_df) :
                    all_comparisons[i].comparison_df[j].match = "match")
                 => \A k \in 1..Len(issues_df) :
                       issues_df[k].item_name # all_comparisons[i].item_name

C12_Witness ==
    /\ pc = "reported"
    /\ Len(all_comparisons) = 2
    /\ ~Below100(1)
    /\ Below100(2)
    /\ \E j \in 1..Len(all_comparisons[2].comparison_df) :
          all_comparisons[2].comparison_df[j].match = "match"
    /\ issues_df # <<>>
    /\ \A k \in 1..Len(issues_df) : issues_df[k].item_name = all_comparisons[2].item_name

RECURSIVE NonMatches(_)
NonMatches(comparisons) ==
    IF comparisons = <<>> THEN 0
    ELSE Len(Head(comparisons).comparison_df) - Tally(Head(comparisons).comparison_df, "match")
         + NonMatches(Tail(comparisons))

(* C13: each summary row's four counts are the direct tallies of the       *)
(* item's records and add up to Total Columns, and the number of issue     *)
(* rows is the number of records, over all items, that are not a match.    *)
C13_ReportCountsRoundTrip ==
    pc = "reported" =>
        /\ Len(summary_df) = Len(all_comparisons)
        /\ \A i \in 1..Len(all_comparisons) :
              LET df == all_comparisons[i].comparison_df
                  row == summary_df[i]
              IN  /\ row.item_name = all_comparisons[i].item_name
                  /\ row.total_columns = Len(df)
                  /\ row.matches = Tally(df, "match")
                  /\ row.mismatches = Tally(df, "mismatch")
                  /\ row.missing_in_target = Tally(df, "missing_target")
                  /\ row.missing_in_source = Tally(df, "missing_source")
                  /\ row.matches + row.mismatches + row.missing_in_target
                         + row.missing_in_source = row.total_columns
        /\ Len(issues_df) = NonMatches(all_comparisons)

C13_Witness ==
    /\ pc = "reported"
    /\ Len(all_comparisons) = 2
    /\ summary_df[1].missing_in_source = 1
    /\ summary_df[1].mismatches = 2
    /\ summary_df[2].missing_in_target > 0
    /\ Len(issues_df) > 3

(* ------------------- claims about a fully matching item ---------------- *)
SharedColumns == Range(source_df.columns) \cap Range(target_df.columns)

IdenticalOnShared(key) ==
    /\ HasItem(source_df, key) /\ HasItem(target_df, key)
    /\ \A c \in SharedColumns : FirstRow(source_df, key)[c] = FirstRow(target_df, key)[c]

AllMatch100(i) ==
    /\ \A j \in 1..Len(all_comparisons[i].comparison_df) :
          all_comparisons[i].comparison_df[j].match = "match"
    /\ summary_df[i].item_name = all_comparisons[i].item_name
    /\ summary_df[i].match_pct = 1000

(* C10 as stated: identical values in every column the two datasets share  *)
(* give status match for every record of the item and 100.0 percent.       *)
C10_IdenticalSharedAllMatch ==
    pc = "reported" =>
        \A i \in 1..Len(all_comparisons) :
            IdenticalOnShared(all_comparisons[i].item_name) => AllMatch100(i)

(* no compared source column that the target lacks holds a value *)
SourceOnlyColumnsEmpty(key) ==
    \A c \in Range(source_df.columns) \ (Range(target_df.columns) \cup IGNORE_COLUMNS) :
        isna(FirstRow(source_df, key)[c])

(* C10 amended: identical values in every shared column give status match  *)
(* for every record and 100.0 percent, provided every compared source      *)
(* column that is not a column of the target has an absent source value.   *)
C10_IdenticalAndCoveredAllMatch ==
    pc = "reported" =>
        \A i \in 1..Len(all_comparisons) :
            (/\ IdenticalOnShared(all_comparisons[i].item_name)
             /\ SourceOnlyColumnsEmpty(all_comparisons[i].item_name))
                => AllMatch100(i)

C10_Witness ==
    /\ pc = "reported"
    /\ \E i \in 1..Len(all_comparisons) :
          /\ IdenticalOnShared(all_comparisons[i].item_name)
          /\ SourceOnlyColumnsEmpty(all_comparisons[i].item_name)
          /\ "Units" \in Range(source_df.columns) \ Range(target_df.columns)
          /\ Len(all_comparisons[i].comparison_df) = 5
          /\ summary_df[i].match_pct = 1000

(* ------------------- claims about rows sharing an Item Name ------------ *)
(* the value the first row of df with the key holds in col; None when no   *)
(* row has the key or df has no such column                                *)
FirstValue(df, key, col) ==
    IF HasItem(df, key) /\ col \in Range(df.columns) THEN FirstRow(df, key)[col] ELSE None

(* a descriptive field of an issue row, read from the first source row *)
FirstField(key, col) ==
    IF HasItem(source_df, key) /\ col \in Range(source_df.columns)
       THEN FirstRow(source_df, key)[col] ELSE Blank

(* C21: when several rows share an Item Name, every comparison record      *)
(* takes its source value, its target value and its status from the first  *)
(* row with that Item Name of each dataset, in dataset order, and every    *)
(* issue row takes its descriptive fields from the first such source row;  *)
(* the later rows influence nothing.                                       *)
C21_FirstMatchingRowUsed ==
    /\ pc \in {"compared", "reported"} =>
          \A ij \in Records :
              LET sv == FirstValue(source_df, Item(ij), Rec(ij).column_name)
                  tv == FirstValue(target_df, Item(ij), Rec(ij).column_name)
              IN  /\ Rec(ij).source_value = (IF isna(sv) THEN Blank ELSE sv)
                  /\ Rec(ij).target_value
                        = (IF isna(tv) THEN ColumnNotIn(target_name) ELSE tv)
                  /\ Rec(ij).match = compare_values_vectorized(sv, tv).status
    /\ pc = "reported" =>
          \A k \in 1..Len(issues_df) :
              /\ issues_df[k].form_name = FirstField(issues_df[k].item_name, "Form Name")
              /\ issues_df[k].form_label = FirstField(issues_df[k].item_name, "Form Label")
              /\ issues_df[k].form_short_label
                    = FirstField(issues_df[k].item_name, "Form Short Label")
              /\ issues_df[k].item_group_name
                    = FirstField(issues_df[k].item_name, "Item Group Name")
              /\ issues_df[k].item_group_label
                    = FirstField(issues_df[k].item_name, "Item Group Label")

(* two source rows and two target rows for AGE, in opposite orders *)
C21_Witness ==
    /\ pc = "reported"
    /\ Len(RowsWith(source_df.rows, "Item Name", AGE)) = 2
    /\ Len(RowsWith(target_df.rows, "Item Name", AGE)) = 2
    /\ source_df.rows[1]["Item Group Label"] = DEMOG
    /\ source_df.rows[2]["Item Group Label"] = VITALS
    /\ target_df.rows[1]["Item Group Label"] = VITALS
    /\ target_df.rows[2]["Item Group Label"] = DEMOG
    /\ \E k \in 1..Len(issues_df) :
          /\ issues_df[k].item_name = AGE
          /\ issues_df[k].item_group_label = DEMOG
          /\ issues_df[k].issue_type.column_name = "Item Group Label"
          /\ issues_df[k].issue_type.wording = "Value mismatch"

(* C22: an item with a row in only one dataset has no mismatch record:     *)
(* only in the source, every record is match (with the source value        *)
(* absent) or missing_target; only in the target, every record is match    *)
(* or missing_source.                                                      *)
C22_SingleSideNeverMismatch ==
    pc = "compared" =>
        \A ij \in Records :
            /\ (HasItem(source_df, Item(ij)) /\ ~HasItem(target_df, Item(ij))) =>
                  /\ Rec(ij).match \in {"match", "missing_target"}
                  /\ Rec(ij).match = "match"
                        <=> isna(FirstRow(source_df, Item(ij))[Rec(ij).column_name])
            /\ (HasItem(target_df, Item(ij)) /\ ~HasItem(source_df, Item(ij))) =>
                  Rec(ij).match \in {"match", "missing_source"}

C22_Witness ==
    /\ pc = "compared"
    /\ \E ij \in Records : \E kl \in Records : \E mn \in Records :
          /\ HasItem(source_df, Item(ij)) /\ ~HasItem(target_df, Item(ij))
          /\ ij[1] = kl[1]
          /\ Rec(ij).match = "match"
          /\ Rec(kl).match = "missing_target"
          /\ HasItem(target_df, Item(mn)) /\ ~HasItem(source_df, Item(mn))
          /\ Rec(mn).match = "missing_source"

(* ------------------------- claims on the session ----------------------- *)
(* the dataset a side holds is unset when that side's input does not parse *)
UnsetAfterFailure(input, held) == (input.filled /\ ~input.parses) => held.none

(* C16: whenever the pasted text or the uploaded file of a side does not   *)
(* parse, the session dataset of that side is unset after the run, with    *)
(* either input method and whatever the session held before.               *)
C16_ParseFailureUnsetsDataset ==
    pc = "session" =>
        /\ UnsetAfterFailure(widgets.left, session_state.ptd_df)
        /\ UnsetAfterFailure(widgets.right, session_state.sds_df)

(* C17: whenever two datasets are compared in the SDS -> SDS direction,    *)
(* neither of them has gone through process_ptd_dataframe.                 *)
C17_SdsSdsDatasetsArePlain ==
    (/\ pc = "session"
     /\ session_state.comparison_direction = SDS_SDS
     /\ ~session_state.ptd_df.none
     /\ ~session_state.sds_df.none)
        => ~history.ptd_preprocessed /\ ~history.sds_preprocessed

(* C18: with two datasets loaded, whatever their columns and whatever the  *)
(* selection, a run of the comparison path never ends in an unhandled      *)
(* failure.                                                                *)
C18_NoUnhandledFailure ==
    (/\ pc = "session"
     /\ ~session_state.ptd_df.none
     /\ ~session_state.sds_df.none)
        => output.failure = "none"

StoredItems == {session_state.all_comparisons[i].item_name :
                    i \in 1..Len(session_state.all_comparisons)}

(* C20: after any sequence of runs the stored result set holds entries     *)
(* only for items selected in the most recent comparison, and the stored   *)
(* source label, target label and source dataset are those of that same    *)
(* comparison; a generated report lists only items of that comparison.     *)
C20_ResultsOfOneRun ==
    (pc = "session" /\ session_state.comparison_complete) =>
        /\ StoredItems \subseteq Range(history.last_run.selected)
        /\ session_state.source_name = history.last_run.source_name
        /\ session_state.target_name = history.last_run.target_name
        /\ session_state.source_df = Some(history.last_run.source_df)
        /\ \A i \in 1..Len(session_state.all_comparisons) :
              session_state.all_comparisons[i].comparison_df
                  = create_comparison_dataframe(
                        filter_rows(history.last_run.source_df, "Item Name",
                                    session_state.all_comparisons[i].item_name),
                        filter_rows(history.last_run.target_df, "Item Name",
                                    session_state.all_comparisons[i].item_name),
                        history.last_run.source_df,
                        history.last_run.source_name, history.last_run.target_name)
        /\ output.report.generated =>
              {output.report.summary[i].item_name : i \in 1..Len(output.report.summary)}
                  \subseteq Range(history.last_run.selected)

(* a second comparison in another direction and with another selection,    *)
(* and the report generated from it                                        *)
C20_Witness ==
    /\ pc = "session"
    /\ session_state.comparison_complete
    /\ history.previous_selected # <<>>
    /\ Range(history.previous_selected) \ Range(history.last_run.selected) # {}
    /\ session_state.all_comparisons # <<>>
    /\ session_state.source_name = "SDS1"
    /\ output.report.generated

====
